---- MODULE Spec2Model ----
(***************************************************************************)
(* Model of jsonc_update_models.py: the lexical skipper, the key locator,  *)
(* the object bracket matcher, the path resolver for                       *)
(* provider.nanogpt.models and the splicer.  A document is a sequence of   *)
(* one-character strings; offsets are Python's, counted from 0.            *)
(***************************************************************************)
EXTENDS Integers, Sequences, FiniteSets, TLC

\* ------------------------------------------------------------------------
\* Bounds of the model
\* ------------------------------------------------------------------------

\* Longest generated document (every string over Alphabet up to this length).
MaxLen == 4

\* Longest generated document whose while loops are stepped through.
MaxLoopLen == 3

\* Characters the generated documents are made of.
Alphabet ==
  {"{", "}", "[", "\"", "'", "/", "*", "\\", "\n"}

\* ------------------------------------------------------------------------
\* Python primitives
\* ------------------------------------------------------------------------

\* content[i]
At(content, i) ==
  content[i + 1]

\* content[a:b] for 0 <= a (Python clamps b to len(content))
Slice(content, a, b) ==
  LET hi == IF b < Len(content) THEN b ELSE Len(content)
  IN  IF a >= hi THEN << >> ELSE SubSeq(content, a + 1, hi)

\* min(S) of a non-empty set of integers
Min(S) ==
  CHOOSE x \in S : \A y \in S : x <= y

\* content.find(sub, from): the smallest offset >= from where sub occurs, or -1
StrFind(content, sub, from) ==
  LET hits == {j \in from..(Len(content) - Len(sub)) :
                 Slice(content, j, j + Len(sub)) = sub}
  IN  IF hits = {} THEN -1 ELSE Min(hits)

\* ------------------------------------------------------------------------
\* skip_comment_or_string
\* ------------------------------------------------------------------------

\* Variant: a backslash is an ordinary character of the string.
RECURSIVE string_loop_no_escape(_, _, _)
string_loop_no_escape(content, i, quote) ==
  IF i >= Len(content) THEN i
  ELSE IF At(content, i) = quote THEN i + 1
  ELSE string_loop_no_escape(content, i + 1, quote)

\* The while loop of a quoted string: i is past the opening quote.
RECURSIVE string_loop(_, _, _)
string_loop(content, i, quote) ==
  IF i >= Len(content) THEN i
  ELSE IF At(content, i) = "\\" /\ i + 1 < Len(content)
         THEN string_loop(content, i + 2, quote)
  ELSE IF At(content, i) = quote THEN i + 1
  ELSE string_loop(content, i + 1, quote)

\* Variant: the closing "*/" is searched from i + 1, so "/*/" closes itself.
skip_comment_or_string_overlap(content, i) ==
  IF i >= Len(content) THEN i
  ELSE IF Slice(content, i, i + 2) = <<"/", "/">>
         THEN LET end == StrFind(content, <<"\n">>, i)
              IN  IF end = -1 THEN Len(content) ELSE end + 1
  ELSE IF Slice(content, i, i + 2) = <<"/", "*">>
         THEN LET end == StrFind(content, <<"*", "/">>, i + 1)
              IN  IF end = -1 THEN Len(content) ELSE end + 2
  ELSE IF At(content, i) = "\"" THEN string_loop(content, i + 1, "\"")
  ELSE IF At(content, i) = "'" THEN string_loop(content, i + 1, "'")
  ELSE i

skip_comment_or_string(content, i) ==
  IF i >= Len(content) THEN i
  ELSE IF Slice(content, i, i + 2) = <<"/", "/">>
         THEN LET end == StrFind(content, <<"\n">>, i)
              IN  IF end = -1 THEN Len(content) ELSE end + 1
  ELSE IF Slice(content, i, i + 2) = <<"/", "*">>
         THEN LET end == StrFind(content, <<"*", "/">>, i + 2)
              IN  IF end = -1 THEN Len(content) ELSE end + 2
  ELSE IF At(content, i) = "\"" THEN string_loop(content, i + 1, "\"")
  ELSE IF At(content, i) = "'" THEN string_loop(content, i + 1, "'")
  ELSE i

\* ------------------------------------------------------------------------
\* find_key_position
\* ------------------------------------------------------------------------

\* key_pattern = f'"{key}"'
key_pattern(key) ==
  <<"\"">> \o key \o <<"\"">>

\* The while loop of find_key_position: the skipper is tried first, the
\* token is compared only where the skipper did not advance.
RECURSIVE find_key_loop(_, _, _)
find_key_loop(content, pattern, i) ==
  IF i >= Len(content) THEN -1
  ELSE LET new_i == skip_comment_or_string(content, i)
       IN  IF new_i # i THEN find_key_loop(content, pattern, new_i)
           ELSE IF Slice(content, i, i + Len(pattern)) = pattern THEN i
           ELSE find_key_loop(content, pattern, i + 1)

find_key_position(content, key, start) ==
  find_key_loop(content, key_pattern(key), start)

\* ------------------------------------------------------------------------
\* find_object_start, find_object_end
\* ------------------------------------------------------------------------

\* Variant: the skipper is never tried, every character is inspected.
RECURSIVE find_object_start_raw(_, _)
find_object_start_raw(content, key_pos) ==
  IF key_pos >= Len(content) THEN -1
  ELSE IF At(content, key_pos) = "{" THEN key_pos
  ELSE IF At(content, key_pos) = "[" THEN -1
  ELSE find_object_start_raw(content, key_pos + 1)

\* Variant: a '[' does not stop the scan.
RECURSIVE find_object_start_past_array(_, _)
find_object_start_past_array(content, key_pos) ==
  IF key_pos >= Len(content) THEN -1
  ELSE LET new_i == skip_comment_or_string(content, key_pos)
       IN  IF new_i # key_pos THEN find_object_start_past_array(content, new_i)
           ELSE IF At(content, key_pos) = "{" THEN key_pos
           ELSE find_object_start_past_array(content, key_pos + 1)

RECURSIVE find_object_start(_, _)
find_object_start(content, key_pos) ==
  IF key_pos >= Len(content) THEN -1
  ELSE LET new_i == skip_comment_or_string(content, key_pos)
       IN  IF new_i # key_pos THEN find_object_start(content, new_i)
           ELSE IF At(content, key_pos) = "{" THEN key_pos
           ELSE IF At(content, key_pos) = "[" THEN -1
           ELSE find_object_start(content, key_pos + 1)

\* The while loop of find_object_end with its two locals.
RECURSIVE object_end_loop(_, _, _)
object_end_loop(content, i, brace_count) ==
  IF ~(i < Len(content) /\ brace_count > 0) THEN i
  ELSE LET new_i == skip_comment_or_string(content, i)
       IN  IF new_i # i THEN object_end_loop(content, new_i, brace_count)
           ELSE IF At(content, i) = "{"
                  THEN object_end_loop(content, i + 1, brace_count + 1)
           ELSE IF At(content, i) = "}"
                  THEN IF brace_count - 1 = 0 THEN i
                       ELSE object_end_loop(content, i + 1, brace_count - 1)
           ELSE object_end_loop(content, i + 1, brace_count)

find_object_end(content, start) ==
  object_end_loop(content, start + 1, 1)

\* ------------------------------------------------------------------------
\* One iteration of each while loop: the loop test and the loop body, from the
\* cursor i (and brace_count) at the loop head.  done says that the function
\* returned, with ret; otherwise i (and brace_count) are those of the next
\* loop head.
\* ------------------------------------------------------------------------

Goes(i) ==
  [done |-> FALSE, i |-> i, ret |-> 0]

Returns(i, ret) ==
  [done |-> TRUE, i |-> i, ret |-> ret]

\* Variant: a backslash that ends the document is not stepped over.
string_step_stuck(content, i, quote) ==
  IF i >= Len(content) THEN Returns(i, i)
  ELSE IF At(content, i) = "\\"
         THEN IF i + 1 < Len(content) THEN Goes(i + 2) ELSE Goes(i)
  ELSE IF At(content, i) = quote THEN Returns(i, i + 1)
  ELSE Goes(i + 1)

\* skip_comment_or_string, the while loop of a quoted string
string_step(content, i, quote) ==
  IF i >= Len(content) THEN Returns(i, i)
  ELSE IF At(content, i) = "\\" /\ i + 1 < Len(content) THEN Goes(i + 2)
  ELSE IF At(content, i) = quote THEN Returns(i, i + 1)
  ELSE Goes(i + 1)

\* find_key_position, the while loop
find_key_step(content, pattern, i) ==
  IF i >= Len(content) THEN Returns(i, -1)
  ELSE LET new_i == skip_comment_or_string(content, i)
       IN  IF new_i # i THEN Goes(new_i)
           ELSE IF Slice(content, i, i + Len(pattern)) = pattern THEN Returns(i, i)
           ELSE Goes(i + 1)

\* find_object_start, the while loop
find_object_start_step(content, i) ==
  IF i >= Len(content) THEN Returns(i, -1)
  ELSE LET new_i == skip_comment_or_string(content, i)
       IN  IF new_i # i THEN Goes(new_i)
           ELSE IF At(content, i) = "{" THEN Returns(i, i)
           ELSE IF At(content, i) = "[" THEN Returns(i, -1)
           ELSE Goes(i + 1)

\* Variant: a nested '{' is not counted.
find_object_end_step_flat(content, i, brace_count) ==
  IF ~(i < Len(content) /\ brace_count > 0)
    THEN [done |-> TRUE, i |-> i, brace_count |-> brace_count, ret |-> i]
  ELSE LET new_i == skip_comment_or_string(content, i)
       IN  IF new_i # i
             THEN [done |-> FALSE, i |-> new_i, brace_count |-> brace_count, ret |-> 0]
           ELSE IF At(content, i) = "}"
             THEN IF brace_count - 1 = 0
                    THEN [done |-> TRUE, i |-> i, brace_count |-> 0, ret |-> i]
                    ELSE [done |-> FALSE, i |-> i + 1,
                          brace_count |-> brace_count - 1, ret |-> 0]
           ELSE [done |-> FALSE, i |-> i + 1, brace_count |-> brace_count, ret |-> 0]

\* find_object_end, the while loop
find_object_end_step(content, i, brace_count) ==
  IF ~(i < Len(content) /\ brace_count > 0)
    THEN [done |-> TRUE, i |-> i, brace_count |-> brace_count, ret |-> i]
  ELSE LET new_i == skip_comment_or_string(content, i)
       IN  IF new_i # i
             THEN [done |-> FALSE, i |-> new_i, brace_count |-> brace_count, ret |-> 0]
           ELSE IF At(content, i) = "{"
             THEN [done |-> FALSE, i |-> i + 1,
                   brace_count |-> brace_count + 1, ret |-> 0]
           ELSE IF At(content, i) = "}"
             THEN IF brace_count - 1 = 0
                    THEN [done |-> TRUE, i |-> i, brace_count |-> 0, ret |-> i]
                    ELSE [done |-> FALSE, i |-> i + 1,
                          brace_count |-> brace_count - 1, ret |-> 0]
           ELSE [done |-> FALSE, i |-> i + 1, brace_count |-> brace_count, ret |-> 0]

\* ------------------------------------------------------------------------
\* find_models_section, update_models_section
\* ------------------------------------------------------------------------

KeyProvider ==
  <<"p", "r", "o", "v", "i", "d", "e", "r">>

KeyNanogpt ==
  <<"n", "a", "n", "o", "g", "p", "t">>

KeyModels ==
  <<"m", "o", "d", "e", "l", "s">>

\* Optional[Tuple[int, int]]: None is the empty tuple.
None ==
  << >>

\* The locals of find_models_section, each defined where the ones before it
\* were found (the code returns None before computing the next).
provider_pos(content) ==
  find_key_position(content, KeyProvider, 0)

provider_object_start(content) ==
  find_object_start(content, provider_pos(content))

nanogpt_pos(content) ==
  find_key_position(content, KeyNanogpt, provider_object_start(content) + 1)

provider_object_end(content) ==
  find_object_end(content, provider_object_start(content))

nanogpt_object_start(content) ==
  find_object_start(content, nanogpt_pos(content))

models_pos(content) ==
  find_key_position(content, KeyModels, nanogpt_object_start(content) + 1)

nanogpt_object_end(content) ==
  find_object_end(content, nanogpt_object_start(content))

models_object_start(content) ==
  find_object_start(content, models_pos(content))

models_object_end(content) ==
  find_object_end(content, models_object_start(content))

find_models_section(content) ==
  IF provider_pos(content) = -1 THEN None
  ELSE IF provider_object_start(content) = -1 THEN None
  ELSE IF nanogpt_pos(content) = -1 THEN None
  ELSE IF nanogpt_pos(content) >= provider_object_end(content) THEN None
  ELSE IF nanogpt_object_start(content) = -1 THEN None
  ELSE IF models_pos(content) = -1 THEN None
  ELSE IF models_pos(content) >= nanogpt_object_end(content) THEN None
  ELSE IF models_object_start(content) = -1 THEN None
  ELSE <<models_object_start(content), models_object_end(content)>>

\* What a call produces: a returned document, or ValueError raised.
Returned(doc) ==
  [raised |-> FALSE, value |-> doc]

ValueError ==
  [raised |-> TRUE, value |-> << >>]

\* Variant: when nothing is found the document is returned as it was.
update_models_section_best_effort(content, new_models) ==
  LET result == find_models_section(content)
  IN  IF result = None THEN Returned(content)
      ELSE Returned(Slice(content, 0, result[1] + 1) \o new_models
                      \o Slice(content, result[2], Len(content)))

update_models_section(content, new_models) ==
  LET result == find_models_section(content)
  IN  IF result = None THEN ValueError
      ELSE LET models_start == result[1]
               models_end == result[2]
           IN  Returned(Slice(content, 0, models_start + 1) \o new_models
                          \o Slice(content, models_end, Len(content)))

\* {"provider":{"nanogpt":{"models":{"x":1}}}}
ScenarioA ==
  <<
    "{", "\"", "p", "r", "o", "v", "i", "d", "e", "r", "\"", ":", "{", "\"", "n", "a", "n",
    "o", "g", "p", "t", "\"", ":", "{", "\"", "m", "o", "d", "e", "l", "s", "\"", ":", "{",
    "\"", "x", "\"", ":", "1", "}", "}", "}", "}"
  >>

\* {"provider":{// "models": fake\n"nanogpt": { "models": {} }}}
ScenarioB ==
  <<
    "{", "\"", "p", "r", "o", "v", "i", "d", "e", "r", "\"", ":", "{", "/", "/", " ", "\"",
    "m", "o", "d", "e", "l", "s", "\"", ":", " ", "f", "a", "k", "e", "\n", "\"", "n", "a",
    "n", "o", "g", "p", "t", "\"", ":", " ", "{", " ", "\"", "m", "o", "d", "e", "l", "s",
    "\"", ":", " ", "{", "}", " ", "}", "}", "}"
  >>

\* {"provider":{"nanogpt":{"models":[1,2,3]}}}
ScenarioC ==
  <<
    "{", "\"", "p", "r", "o", "v", "i", "d", "e", "r", "\"", ":", "{", "\"", "n", "a", "n",
    "o", "g", "p", "t", "\"", ":", "{", "\"", "m", "o", "d", "e", "l", "s", "\"", ":", "[",
    "1", ",", "2", ",", "3", "]", "}", "}", "}"
  >>

\* {"nanogpt":{"models":{}}}
DocNoProvider ==
  <<
    "{", "\"", "n", "a", "n", "o", "g", "p", "t", "\"", ":", "{", "\"", "m", "o", "d", "e",
    "l", "s", "\"", ":", "{", "}", "}", "}"
  >>

\* {"provider":{"models":{}}}
DocNoNanogpt ==
  <<
    "{", "\"", "p", "r", "o", "v", "i", "d", "e", "r", "\"", ":", "{", "\"", "m", "o", "d",
    "e", "l", "s", "\"", ":", "{", "}", "}", "}"
  >>

\* {"provider":{"nanogpt":{"x":{}}}}
DocNoModels ==
  <<
    "{", "\"", "p", "r", "o", "v", "i", "d", "e", "r", "\"", ":", "{", "\"", "n", "a", "n",
    "o", "g", "p", "t", "\"", ":", "{", "\"", "x", "\"", ":", "{", "}", "}", "}", "}"
  >>

\* {"provider":{"nanogpt":{"models":{"x":1
DocUnterminated ==
  <<
    "{", "\"", "p", "r", "o", "v", "i", "d", "e", "r", "\"", ":", "{", "\"", "n", "a", "n",
    "o", "g", "p", "t", "\"", ":", "{", "\"", "m", "o", "d", "e", "l", "s", "\"", ":", "{",
    "\"", "x", "\"", ":", "1"
  >>

\* {"provider":{"nanogpt":{"models":{"x":"1}}}}
DocOpenString ==
  <<
    "{", "\"", "p", "r", "o", "v", "i", "d", "e", "r", "\"", ":", "{", "\"", "n", "a", "n",
    "o", "g", "p", "t", "\"", ":", "{", "\"", "m", "o", "d", "e", "l", "s", "\"", ":", "{",
    "\"", "x", "\"", ":", "\"", "1", "}", "}", "}", "}"
  >>

\* {"provider":{"nanogpt":{/* "models":{ */"models":{"y":2}}}}
DocBlockComment ==
  <<
    "{", "\"", "p", "r", "o", "v", "i", "d", "e", "r", "\"", ":", "{", "\"", "n", "a", "n",
    "o", "g", "p", "t", "\"", ":", "{", "/", "*", " ", "\"", "m", "o", "d", "e", "l", "s",
    "\"", ":", "{", " ", "*", "/", "\"", "m", "o", "d", "e", "l", "s", "\"", ":", "{",
    "\"", "y", "\"", ":", "2", "}", "}", "}", "}"
  >>

\* {"provider":{"nanogpt":{"n":'"models":{',"models":{}}}}
DocStringValue ==
  <<
    "{", "\"", "p", "r", "o", "v", "i", "d", "e", "r", "\"", ":", "{", "\"", "n", "a", "n",
    "o", "g", "p", "t", "\"", ":", "{", "\"", "n", "\"", ":", "'", "\"", "m", "o", "d",
    "e", "l", "s", "\"", ":", "{", "'", ",", "\"", "m", "o", "d", "e", "l", "s", "\"", ":",
    "{", "}", "}", "}", "}"
  >>

\* {"provider":{},"mcp":{"nanogpt":{"models":{}}}}
DocSibling ==
  <<
    "{", "\"", "p", "r", "o", "v", "i", "d", "e", "r", "\"", ":", "{", "}", ",", "\"", "m",
    "c", "p", "\"", ":", "{", "\"", "n", "a", "n", "o", "g", "p", "t", "\"", ":", "{",
    "\"", "m", "o", "d", "e", "l", "s", "\"", ":", "{", "}", "}", "}", "}"
  >>

\* {"provider":{"nanogpt":{"o":{"models":{}},"models":{"x":1}}}}
DocDeep ==
  <<
    "{", "\"", "p", "r", "o", "v", "i", "d", "e", "r", "\"", ":", "{", "\"", "n", "a", "n",
    "o", "g", "p", "t", "\"", ":", "{", "\"", "o", "\"", ":", "{", "\"", "m", "o", "d",
    "e", "l", "s", "\"", ":", "{", "}", "}", ",", "\"", "m", "o", "d", "e", "l", "s", "\"",
    ":", "{", "\"", "x", "\"", ":", "1", "}", "}", "}", "}"
  >>

\* {"provider":{"nanogpt":{"models":5,"other":{"a":1}}}}
DocScalar ==
  <<
    "{", "\"", "p", "r", "o", "v", "i", "d", "e", "r", "\"", ":", "{", "\"", "n", "a", "n",
    "o", "g", "p", "t", "\"", ":", "{", "\"", "m", "o", "d", "e", "l", "s", "\"", ":", "5",
    ",", "\"", "o", "t", "h", "e", "r", "\"", ":", "{", "\"", "a", "\"", ":", "1", "}",
    "}", "}", "}"
  >>

\* ------------------------------------------------------------------------
\* Reference lexical structure of a JSONC document, read from offset 0:
\* every character is "code", the first character of a comment or string
\* ("open"), or a later character of one ("in").
\* ------------------------------------------------------------------------

\* The number of backslashes that immediately precede offset j inside the
\* string opened at offset i.
BackslashRun(cc, i, j) ==
  LET stops == {k \in i..(j - 1) : cc[k + 1] # "\\"}
  IN  j - 1 - (CHOOSE k \in stops : \A m \in stops : m <= k)

\* The offset just past the comment or string that opens at i (len(cc) when
\* it never closes); i + 1 when none opens at i.
RefTokenEnd(cc, i) ==
  LET n == Len(cc)
      c == cc[i + 1]
      d == IF i + 1 < n THEN cc[i + 2] ELSE ""
  IN  IF c = "/" /\ d = "/"
        THEN LET nl == {j \in i..(n - 1) : cc[j + 1] = "\n"}
             IN  IF nl = {} THEN n ELSE Min(nl) + 1
      ELSE IF c = "/" /\ d = "*"
        THEN LET cl == {j \in (i + 2)..(n - 2) : cc[j + 1] = "*" /\ cc[j + 2] = "/"}
             IN  IF cl = {} THEN n ELSE Min(cl) + 2
      ELSE IF c \in {"\"", "'"}
        THEN LET cl == {j \in (i + 1)..(n - 1) :
                          cc[j + 1] = c /\ BackslashRun(cc, i, j) % 2 = 0}
             IN  IF cl = {} THEN n ELSE Min(cl) + 1
      ELSE i + 1

RefOpens(cc, i) ==
  \/ cc[i + 1] \in {"\"", "'"}
  \/ cc[i + 1] = "/" /\ i + 1 < Len(cc) /\ cc[i + 2] \in {"/", "*"}

RECURSIVE RefLex(_, _, _)
RefLex(cc, i, acc) ==
  IF i >= Len(cc) THEN acc
  ELSE LET e == RefTokenEnd(cc, i)
       IN  RefLex(cc, e,
                  IF RefOpens(cc, i)
                    THEN acc \o <<"open">> \o [k \in 1..(e - i - 1) |-> "in"]
                    ELSE Append(acc, "code"))

LexClass(cc, p) ==
  RefLex(cc, 0, << >>)[p + 1]

\* p is an offset a scan from 0 inspects: not inside a comment or string.
TopLevel(cc, p) ==
  p < Len(cc) /\ LexClass(cc, p) \in {"code", "open"}

\* The character at p is c and belongs to no comment or string.
CodeChar(cc, p, c) ==
  p >= 0 /\ p < Len(cc) /\ cc[p + 1] = c /\ LexClass(cc, p) = "code"

\* The offsets of the structural c of the document.
CodeChars(cc, c) ==
  LET lex == RefLex(cc, 0, << >>)
  IN  {p \in 0..(Len(cc) - 1) : cc[p + 1] = c /\ lex[p + 1] = "code"}

\* The brace matching the structural '{' at start, counting structural
\* braces only: the first '}' after which as many have closed as opened;
\* len(cc) when there is none.
RefMatch(cc, start) ==
  LET opens == CodeChars(cc, "{")
      closes == CodeChars(cc, "}")
      Depth(j) == Cardinality({k \in opens : start <= k /\ k <= j})
                    - Cardinality({k \in closes : start <= k /\ k <= j})
      ends == {j \in closes : j > start /\ Depth(j) = 0}
  IN  IF ends = {} THEN Len(cc) ELSE Min(ends)

\* The offsets >= from of the characters c that belong to no comment or
\* string when the text is read from offset from.
CodeCharsAfter(cc, from, c) ==
  LET lex == RefLex(cc, from, [k \in 1..from |-> "before"])
  IN  {p \in from..(Len(cc) - 1) : cc[p + 1] = c /\ lex[p + 1] = "code"}

\* 1 + the '{' - the '}' among the offsets start+1..upto-1, counting only
\* those outside comments and strings as read from start + 1.
DepthBefore(cc, start, upto) ==
  1 + Cardinality({k \in CodeCharsAfter(cc, start + 1, "{") : k < upto})
    - Cardinality({k \in CodeCharsAfter(cc, start + 1, "}") : k < upto})

\* The first '}' outside comments and strings after start at which the depth
\* reaches 0; len(cc) when there is none.
RefObjectEnd(cc, start) ==
  LET ends == {j \in CodeCharsAfter(cc, start + 1, "}") :
                 DepthBefore(cc, start, j + 1) = 0}
  IN  IF ends = {} THEN Len(cc) ELSE Min(ends)

\* The first structural '{' or '[' at or after p, len(cc) when none.
FirstBracket(cc, p) ==
  LET bs == {j \in CodeChars(cc, "{") \cup CodeChars(cc, "[") : j >= p}
  IN  IF bs = {} THEN Len(cc) ELSE Min(bs)

\* The first offset >= start at which the quoted key token begins outside
\* comments and outside other string literals; -1 when there is none.
RefKeyPosition(cc, k, start) ==
  LET hits == {p \in start..(Len(cc) - 1) :
                 TopLevel(cc, p) /\ Slice(cc, p, p + Len(key_pattern(k))) = key_pattern(k)}
  IN  IF hits = {} THEN -1 ELSE Min(hits)

\* Offset p lies in a comment of the document as read from offset 0.
InComment(cc, p) ==
  \E q \in 0..p :
    /\ TopLevel(cc, q)
    /\ RefOpens(cc, q)
    /\ cc[q + 1] = "/"
    /\ p < RefTokenEnd(cc, q)

\* Between offsets a (included) and b (excluded) there is nothing but a
\* colon, whitespace and comments.
OnlyColonSpaceComments(cc, a, b) ==
  \A p \in a..(b - 1) :
    \/ InComment(cc, p)
    \/ cc[p + 1] \in {":", " ", "\n"}

\* The quoted key token occurs nowhere in the text, not even in a comment.
KeyAbsent(content, key) ==
  StrFind(content, key_pattern(key), 0) = -1

\* Some stage of find_models_section yields not-found.
StageNotFound(content) ==
  \/ provider_pos(content) = -1
  \/ provider_object_start(content) = -1
  \/ nanogpt_pos(content) = -1
  \/ nanogpt_object_start(content) = -1
  \/ models_pos(content) = -1
  \/ models_object_start(content) = -1

\* ------------------------------------------------------------------------
\* Documents and replacement texts the operations are applied to
\* ------------------------------------------------------------------------

ScenarioDocs ==
  {ScenarioA, ScenarioB, ScenarioC, DocNoProvider, DocNoNanogpt, DocNoModels,
   DocUnterminated, DocOpenString, DocBlockComment, DocStringValue,
   DocSibling, DocDeep, DocScalar}

\* Every document over Alphabet of length 0..MaxLen.
ShortDocs ==
  UNION {[1..n -> Alphabet] : n \in 0..MaxLen}

Documents ==
  ScenarioDocs \cup ShortDocs

\* {"y":2}
ReplY2 ==
  <<"{", "\"", "y", "\"", ":", "2", "}">>

\* {"x":1}
ReplX1 ==
  <<"{", "\"", "x", "\"", ":", "1", "}">>

\* {}
ReplEmpty ==
  <<"{", "}">>

Replacements ==
  {ReplY2, ReplX1, ReplEmpty}

PathKeys ==
  {KeyProvider, KeyNanogpt, KeyModels}

\* ------------------------------------------------------------------------
\* State: one call of one function of the module on one document
\* ------------------------------------------------------------------------

VARIABLES
  content,     \* the document
  op,          \* the function called, "none" before the call
  key,         \* find_key_position's key
  arg,         \* the offset argument of the helper called
  new_models,  \* update_models_section's replacement text
  ret,         \* the offset a helper returned
  span,        \* find_models_section's result
  out,         \* update_models_section's outcome
  pc,          \* "idle", "loop" at the head of a while loop, "done" after it
  cur,         \* the loop's cursor i
  brace_count  \* find_object_end's depth counter

vars ==
  <<content, op, key, arg, new_models, ret, span, out, pc, cur, brace_count>>

\* The locals of a while loop that is stepped through.
loopvars ==
  <<pc, cur, brace_count>>

NoOutcome ==
  [raised |-> FALSE, value |-> << >>]

Init ==
  /\ content \in Documents
  /\ op = "none"
  /\ key = << >>
  /\ arg = 0
  /\ new_models = << >>
  /\ ret = 0
  /\ span = None
  /\ out = NoOutcome
  /\ pc = "idle"
  /\ cur = 0
  /\ brace_count = 0

SkipCommentOrString ==
  \E i \in 0..Len(content) :
    /\ op = "none"
    /\ op' = "skip_comment_or_string"
    /\ arg' = i
    /\ ret' = skip_comment_or_string(content, i)
    /\ UNCHANGED <<content, key, new_models, span, out>>
    /\ UNCHANGED loopvars

FindKeyPosition ==
  \E k \in PathKeys, start \in 0..Len(content) :
    /\ op = "none"
    /\ op' = "find_key_position"
    /\ key' = k
    /\ arg' = start
    /\ ret' = find_key_position(content, k, start)
    /\ UNCHANGED <<content, new_models, span, out>>
    /\ UNCHANGED loopvars

FindObjectStart ==
  \E key_pos \in 0..Len(content) :
    /\ op = "none"
    /\ op' = "find_object_start"
    /\ arg' = key_pos
    /\ ret' = find_object_start(content, key_pos)
    /\ UNCHANGED <<content, key, new_models, span, out>>
    /\ UNCHANGED loopvars

FindObjectEnd ==
  \E start \in 0..(Len(content) - 1) :
    /\ op = "none"
    /\ op' = "find_object_end"
    /\ arg' = start
    /\ ret' = find_object_end(content, start)
    /\ UNCHANGED <<content, key, new_models, span, out>>
    /\ UNCHANGED loopvars

FindModelsSection ==
  /\ op = "none"
  /\ op' = "find_models_section"
  /\ span' = find_models_section(content)
  /\ UNCHANGED <<content, key, arg, new_models, ret, out>>
  /\ UNCHANGED loopvars

UpdateModelsSection ==
  \E r \in Replacements :
    /\ op = "none"
    /\ op' = "update_models_section"
    /\ new_models' = r
    /\ span' = find_models_section(content)
    /\ out' = update_models_section(content, r)
    /\ UNCHANGED <<content, key, arg, ret>>
    /\ UNCHANGED loopvars

Next ==
  \/ SkipCommentOrString
  \/ FindKeyPosition
  \/ FindObjectStart
  \/ FindObjectEnd
  \/ FindModelsSection
  \/ UpdateModelsSection

Spec ==
  Init /\ [][Next]_vars

\* ------------------------------------------------------------------------
\* The while loops, one iteration at a time
\* ------------------------------------------------------------------------

LoopDocuments ==
  ScenarioDocs \cup UNION {[1..n -> Alphabet] : n \in 0..MaxLoopLen}

LoopInit ==
  /\ content \in LoopDocuments
  /\ op = "none"
  /\ key = << >>
  /\ arg = 0
  /\ new_models = << >>
  /\ ret = 0
  /\ span = None
  /\ out = NoOutcome
  /\ pc = "idle"
  /\ cur = 0
  /\ brace_count = 0

\* skip_comment_or_string reaches a string loop: i += 1 past the quote.
EnterStringLoop ==
  \E i \in 0..(Len(content) - 1) :
    /\ op = "none"
    /\ At(content, i) \in {"\"", "'"}
    /\ op' = "skip_comment_or_string"
    /\ arg' = i
    /\ cur' = i + 1
    /\ pc' = "loop"
    /\ UNCHANGED <<content, key, new_models, ret, span, out, brace_count>>

StringIteration ==
  /\ op = "skip_comment_or_string"
  /\ pc = "loop"
  /\ LET s == string_step(content, cur, At(content, arg))
     IN  /\ cur' = s.i
         /\ pc' = IF s.done THEN "done" ELSE "loop"
         /\ ret' = IF s.done THEN s.ret ELSE ret
  /\ UNCHANGED <<content, op, key, arg, new_models, span, out, brace_count>>

\* find_key_position: i = start
EnterFindKeyPosition ==
  \E k \in PathKeys, start \in 0..Len(content) :
    /\ op = "none"
    /\ op' = "find_key_position"
    /\ key' = k
    /\ arg' = start
    /\ cur' = start
    /\ pc' = "loop"
    /\ UNCHANGED <<content, new_models, ret, span, out, brace_count>>

FindKeyIteration ==
  /\ op = "find_key_position"
  /\ pc = "loop"
  /\ LET s == find_key_step(content, key_pattern(key), cur)
     IN  /\ cur' = s.i
         /\ pc' = IF s.done THEN "done" ELSE "loop"
         /\ ret' = IF s.done THEN s.ret ELSE ret
  /\ UNCHANGED <<content, op, key, arg, new_models, span, out, brace_count>>

\* find_object_start: i = key_pos
EnterFindObjectStart ==
  \E key_pos \in 0..Len(content) :
    /\ op = "none"
    /\ op' = "find_object_start"
    /\ arg' = key_pos
    /\ cur' = key_pos
    /\ pc' = "loop"
    /\ UNCHANGED <<content, key, new_models, ret, span, out, brace_count>>

FindObjectStartIteration ==
  /\ op = "find_object_start"
  /\ pc = "loop"
  /\ LET s == find_object_start_step(content, cur)
     IN  /\ cur' = s.i
         /\ pc' = IF s.done THEN "done" ELSE "loop"
         /\ ret' = IF s.done THEN s.ret ELSE ret
  /\ UNCHANGED <<content, op, key, arg, new_models, span, out, brace_count>>

\* find_object_end: brace_count = 1, i = start + 1
EnterFindObjectEnd ==
  \E start \in 0..(Len(content) - 1) :
    /\ op = "none"
    /\ op' = "find_object_end"
    /\ arg' = start
    /\ cur' = start + 1
    /\ brace_count' = 1
    /\ pc' = "loop"
    /\ UNCHANGED <<content, key, new_models, ret, span, out>>

FindObjectEndIteration ==
  /\ op = "find_object_end"
  /\ pc = "loop"
  /\ LET s == find_object_end_step(content, cur, brace_count)
     IN  /\ cur' = s.i
         /\ brace_count' = s.brace_count
         /\ pc' = IF s.done THEN "done" ELSE "loop"
         /\ ret' = IF s.done THEN s.ret ELSE ret
  /\ UNCHANGED <<content, op, key, arg, new_models, span, out>>

LoopNext ==
  \/ EnterStringLoop
  \/ StringIteration
  \/ EnterFindKeyPosition
  \/ FindKeyIteration
  \/ EnterFindObjectStart
  \/ FindObjectStartIteration
  \/ EnterFindObjectEnd
  \/ FindObjectEndIteration

\* The program is sequential and runs on: a loop that can take its next
\* iteration takes it.
LoopSpec ==
  LoopInit /\ [][LoopNext]_vars /\ WF_vars(LoopNext)

\* Stepping through a loop returns what the function returns.
LoopsAgree ==
  pc = "done" =>
    ret = CASE op = "skip_comment_or_string" -> skip_comment_or_string(content, arg)
            [] op = "find_key_position" -> find_key_position(content, key, arg)
            [] op = "find_object_start" -> find_object_start(content, arg)
            [] op = "find_object_end" -> find_object_end(content, arg)

Resolved ==
  op \in {"find_models_section", "update_models_section"}

\* What the calls establish about the resolver as the code stands: every
\* quoted key opens with '"', so the skipper consumes it before the token
\* comparison of find_key_position is reached, and no document resolves.
NoSpanResolved ==
  /\ op = "find_key_position" => ret = -1
  /\ Resolved => span = None
  /\ op = "update_models_section" => out = ValueError

\* ------------------------------------------------------------------------
\* Claims
\* ------------------------------------------------------------------------

\* The models object of the documents that hold provider.nanogpt.models as
\* an object: ScenarioA {"x":1} at 33..39, ScenarioB {} at 54..55,
\* DocBlockComment {"y":2} at 49..55.
ModelsObjectOf(doc) ==
  CASE doc = ScenarioA -> <<33, 39>>
    [] doc = ScenarioB -> <<54, 55>>
    [] doc = DocBlockComment -> <<49, 55>>

\* C1: on a document that holds provider.nanogpt.models as an object
\* (comments naming the keys may precede them) find_models_section returns
\* the offsets of the models object's braces; on ScenarioA the span covers
\* exactly {"x":1}.
C1_FindsModelsObject ==
  (op = "find_models_section" /\ content \in {ScenarioA, ScenarioB, DocBlockComment})
    => /\ span = ModelsObjectOf(content)
       /\ content = ScenarioA => Slice(content, span[1], span[2] + 1) = ReplX1

\* C2: when the span (start, end) is resolved, update_models_section returns
\* content[0:start] + new_models + content[end+1:]; splicing {"y":2} into
\* ScenarioA yields {"provider":{"nanogpt":{"models":{"y":2}}}}.
C2_FullBraceReplacement ==
  op = "update_models_section"
    => /\ span # None =>
            out = Returned(Slice(content, 0, span[1]) \o new_models
                             \o Slice(content, span[2] + 1, Len(content)))
       /\ (content = ScenarioA /\ new_models = ReplY2) =>
            out = Returned(Slice(ScenarioA, 0, 33) \o ReplY2
                             \o Slice(ScenarioA, 40, Len(ScenarioA)))

\* C5: find_key_position never returns an offset inside a comment or inside
\* another string literal (what it returns is the opening quote of a string
\* token outside comments); find_object_start, scanning from an offset outside
\* comments and strings, returns only a '{' outside comments and strings;
\* find_object_end, called on a structural '{', returns the brace that matches
\* it when braces inside comments and strings are not counted.
C5_CommentStringImmunity ==
  /\ (op = "find_key_position" /\ TopLevel(content, arg) /\ ret # -1)
       => /\ At(content, ret) = "\""
          /\ LexClass(content, ret) = "open"
          /\ skip_comment_or_string(content, ret) = ret + Len(key_pattern(key))
  /\ (op = "find_object_start" /\ TopLevel(content, arg) /\ ret # -1)
       => CodeChar(content, ret, "{")
  /\ (op = "find_object_end" /\ CodeChar(content, arg, "{"))
       => ret = RefMatch(content, arg)

\* C5 witness: find_object_start passed over a '{' inside a comment or string
\* and returned a later, structural one.
C5_Witness ==
  /\ op = "find_object_start"
  /\ TopLevel(content, arg)
  /\ ret # -1
  /\ \E p \in arg..(ret - 1) : At(content, p) = "{" /\ LexClass(content, p) = "in"

\* C6: find_object_start returns -1 when the first '{' or '[' outside comments
\* and strings is a '['; on ScenarioC ("models": [1,2,3]) find_models_section
\* returns None and update_models_section returns no document.
C6_ArrayIsNotAnObject ==
  /\ (op = "find_object_start" /\ TopLevel(content, arg)
        /\ CodeChar(content, FirstBracket(content, arg), "["))
       => ret = -1
  /\ (Resolved /\ content = ScenarioC) => span = None
  /\ (op = "update_models_section" /\ content = ScenarioC) => out = ValueError

\* C6 witness: a '[' came first, a structural '{' follows it, and the scan
\* answered -1 instead of going on to that brace.
C6_Witness ==
  /\ op = "find_object_start"
  /\ TopLevel(content, arg)
  /\ CodeChar(content, FirstBracket(content, arg), "[")
  /\ \E p \in (FirstBracket(content, arg) + 1)..(Len(content) - 1) :
       CodeChar(content, p, "{")
  /\ ret = -1

\* C7: if a path key is absent, or any stage of find_models_section yields
\* not-found, find_models_section returns None and update_models_section
\* raises ValueError; update_models_section returns a document only when
\* every stage resolved.
C7_NotFoundIsHardStop ==
  /\ (Resolved /\ ((\E k \in PathKeys : KeyAbsent(content, k)) \/ StageNotFound(content)))
       => span = None
  /\ op = "update_models_section"
       => /\ span = None => out = ValueError
          /\ ~out.raised => (span # None /\ ~StageNotFound(content))

\* C7 witness: "provider" is there, "nanogpt" is not, and the update raised.
C7_Witness ==
  /\ op = "update_models_section"
  /\ ~KeyAbsent(content, KeyProvider)
  /\ KeyAbsent(content, KeyNanogpt)
  /\ out = ValueError

\* C11: find_key_position(content, key, start) returns the smallest offset
\* p >= start at which the quoted key token begins outside comments and
\* outside other string literals (the first occurrence in scan order), and
\* -1 only when there is no such occurrence.
C11_FirstKeyOccurrence ==
  (op = "find_key_position" /\ (arg = Len(content) \/ TopLevel(content, arg)))
    => ret = RefKeyPosition(content, key, arg)

\* C12: skip_comment_or_string(content, i) with 0 <= i <= len(content)
\* returns j with i <= j <= len(content); j = i exactly when no "//", "/*",
\* '"' or "'" starts at i; a line comment returns the offset just past the
\* next newline, a block comment the offset just past the next "*/" after
\* its opener, and each returns len(content) when it never ends.
C12_SkipperContract ==
  op = "skip_comment_or_string"
    => LET n == Len(content)
           nl == {j \in arg..(n - 1) : At(content, j) = "\n"}
           cl == {j \in (arg + 2)..(n - 2) : Slice(content, j, j + 2) = <<"*", "/">>}
       IN  /\ arg <= ret /\ ret <= n
           /\ (ret = arg) <=> ~(arg < n /\ RefOpens(content, arg))
           /\ Slice(content, arg, arg + 2) = <<"/", "/">>
                => ret = (IF nl = {} THEN n ELSE Min(nl) + 1)
           /\ Slice(content, arg, arg + 2) = <<"/", "*">>
                => ret = (IF cl = {} THEN n ELSE Min(cl) + 2)

\* C12 witness: a block comment that closes before the end of the document
\* was skipped.
C12_Witness ==
  /\ op = "skip_comment_or_string"
  /\ Slice(content, arg, arg + 2) = <<"/", "*">>
  /\ ret < Len(content)
  /\ Slice(content, ret - 2, ret) = <<"*", "/">>

\* C13: at a quote, skip_comment_or_string returns the offset just past the
\* first later quote of the same kind that an even number of backslashes
\* precedes (each backslash takes the next character with it), and
\* len(content) when there is none: an escaped quote, an escaped backslash,
\* a quote of the other kind and a backslash that ends the document do not
\* close the string.
C13_StringEscapes ==
  (op = "skip_comment_or_string" /\ arg < Len(content)
     /\ At(content, arg) \in {"\"", "'"})
    => LET cl == {j \in (arg + 1)..(Len(content) - 1) :
                    /\ At(content, j) = At(content, arg)
                    /\ BackslashRun(content, arg, j) % 2 = 0}
       IN  ret = (IF cl = {} THEN Len(content) ELSE Min(cl) + 1)

\* C13 witness: the skipped string holds an escaped quote of its own kind
\* and is closed by a later one.
C13_Witness ==
  /\ op = "skip_comment_or_string"
  /\ arg < Len(content)
  /\ At(content, arg) \in {"\"", "'"}
  /\ At(content, ret - 1) = At(content, arg)
  /\ \E j \in (arg + 2)..(ret - 2) :
       At(content, j) = At(content, arg) /\ At(content, j - 1) = "\\"

\* C14: find_object_end(content, start) with content[start] = '{': at every
\* loop head the depth counter is at least 1 and equals 1 plus the '{' minus
\* the '}' passed so far outside comments and strings; the function returns
\* the first '}' at which the depth reaches 0, and exactly len(content) when
\* it never does.
C14_DepthCounter ==
  (op = "find_object_end" /\ At(content, arg) = "{")
    => /\ pc = "loop" =>
            /\ brace_count >= 1
            /\ brace_count = DepthBefore(content, arg, cur)
       /\ pc = "done" =>
            /\ ret = RefObjectEnd(content, arg)
            /\ ret <= Len(content)
            /\ ret < Len(content) => (At(content, ret) = "}" /\ brace_count = 0)

\* C14 witness: the scan went through a nested object and returned the brace
\* that closes the outer one.
C14_Witness ==
  /\ op = "find_object_end"
  /\ pc = "done"
  /\ At(content, arg) = "{"
  /\ ret < Len(content)
  /\ \E p \in CodeCharsAfter(content, arg + 1, "{") : p < ret

\* C17: in the loops of find_key_position, find_object_start, find_object_end
\* and of the strings of skip_comment_or_string the cursor grows with every
\* iteration and never exceeds len(content), and every loop that was entered
\* returns.
C17_ScansTerminate ==
  /\ [][(pc = "loop" /\ pc' = "loop") => (cur < cur' /\ cur' <= Len(content))]_vars
  /\ [](pc = "loop" => cur <= Len(content))
  /\ (pc = "loop") ~> (pc = "done")

\* C17 witness: a string that a lone backslash ends, never closed, was
\* scanned to the end of the document and the skipper returned.
C17_Witness ==
  /\ op = "skip_comment_or_string"
  /\ pc = "done"
  /\ ret = Len(content)
  /\ Len(content) >= arg + 2
  /\ At(content, Len(content) - 1) = "\\"
  /\ BackslashRun(content, arg, Len(content) - 1) % 2 = 0

\* C16: the '{' that find_object_start returns for a key at key_pos opens the
\* value of that key: between the end of the key token and the brace there
\* is only the colon, whitespace and comments.
C16_BraceOfTheKeysValue ==
  \A k \in PathKeys :
    (/\ op = "find_object_start"
     /\ TopLevel(content, arg)
     /\ Slice(content, arg, arg + Len(key_pattern(k))) = key_pattern(k)
     /\ ret # -1)
      => OnlyColonSpaceComments(content, arg + Len(key_pattern(k)), ret)

====
